---- MODULE Spec2Model ----
(***************************************************************************)
(* A model of connect-mongodb-session's MongoDBStore.                      *)
(*                                                                         *)
(* The repository carries two generations of the store:                    *)
(*   "promise"  - src/index.js lines 111-363 (package version 5, the       *)
(*                driver's promise API; the code that ships);              *)
(*   "callback" - src/unnamed/part_000 lines 1-202 (the driver's callback  *)
(*                API, operations buffered on the 'connected' event).      *)
(* variant is chosen in Init and never changes; every action is written    *)
(* from the code of the variant it runs in.                                *)
(*                                                                         *)
(* JavaScript runs one task to completion at a time, so each action is a   *)
(* whole task: a call made by the application, or a driver result          *)
(* together with the handler code it runs.  Listeners and callbacks of the *)
(* application are assumed to return normally.                             *)
(***************************************************************************)
EXTENDS Integers, Sequences, FiniteSets, TLC

\* ---------------------------------------------------------------- bounds
MaxOps == 2          \* get/set/destroy/clear calls made by the application
MaxCalls == 3        \* get/set/destroy/clear calls made against the collection
MaxNow == 2          \* the clock's last millisecond

Variants == {"callback", "promise"}
Causes   == {"Cant connect"}        \* the driver's error.message
Sids     == {"1234"}                \* session ids
Payloads == {"{}"}                  \* session payloads, as util.inspect prints them
Kinds    == {"get", "set", "destroy", "clear"}

VARIABLES
  variant,       \* which generation of the code runs
  phase,         \* position of the constructor's connect chain
  hasCallback,   \* the constructor was given a completion callback
  connectRes,    \* outcome of MongoClient connect: "pending" | "ok" | "fail"
  indexRes,      \* outcome of ensureIndex/createIndex: "none" | "pending" | "ok" | "fail"
  db,            \* this.db is set
  errListeners,  \* the application's 'error' listener: "none" | "on" | "once" | "gone"
  connListeners, \* _emitter's 'connected' listeners, in registration order
  ops,           \* the store operations invoked so far, in invocation order
  inflight,      \* database calls issued and not yet answered
  tick,          \* a process.nextTick(() => callback && callback()) is queued
  dbCalls,       \* the database calls issued, in the order they were issued
  log            \* per operation (0: the constructor): the driver's failures and
                 \* what the store did that is visible outside it, in order

vars == <<variant, phase, hasCallback, connectRes, indexRes, db, errListeners,
          connListeners, ops, inflight, tick, dbCalls, log>>

\* the constructor's arguments and the options it resolves
VARIABLES
  supplied,      \* the options object the constructor was given, by key
  options        \* this.options

optionVars == <<supplied, options>>

\* the collection and the calls made against it once the store is connected
VARIABLES
  now,           \* the clock: what new Date() gives, in milliseconds
  coll,          \* the documents of the collection
  count,         \* how many operations the application has invoked
  pending,       \* database calls issued and not yet executed
  last,          \* the last invocation of an operation's callback
  lastSet        \* per session id: the document of the last updateOne that succeeded

collVars == <<now, coll, count, pending, last, lastSet>>

\* ---------------------------------------------------------------- values
NoErr == [src |-> "none", op |-> 0, msg |-> <<>>]

\* new Error(msg), created at site src while serving operation op (0: the
\* constructor): site and operation stand for the object's identity
NewError(src, op, msg) == [src |-> src, op |-> op, msg |-> msg]

Ev(ev, op, to, err, val) == [ev |-> ev, op |-> op, to |-> to, err |-> err, val |-> val]

\* this._emitter.listeners('error').length, for the one listener the
\* application may register
Registered(L) == IF L \in {"on", "once"} THEN 1 ELSE 0

\* the database call each operation issues
CallOf(kind) ==
  CASE kind = "get"     -> "findOne"
    [] kind = "set"     -> "updateOne"
    [] kind = "destroy" -> "deleteOne"
    [] kind = "clear"   -> "deleteMany"
    [] kind = "all"     -> "find"

\* error texts that leave the session id out
OpErrorMsgNoId(call, sid, payload, message) ==
  CASE call = "findOne"    -> <<"Error finding ", ": ">> \o message
    [] call = "updateOne"  -> <<"Error setting ", " to ", payload, ": ">> \o message
    [] call = "deleteOne"  -> <<"Error destroying ", ": ">> \o message
    [] call = "deleteMany" -> <<"Error clearing all sessions: ">> \o message

\* the text of the error each failed database call is reported with
OpErrorMsg(call, sid, payload, message) ==
  CASE call = "findOne"    -> <<"Error finding ", sid, ": ">> \o message
    [] call = "updateOne"  -> <<"Error setting ", sid, " to ", payload, ": ">> \o message
    [] call = "deleteOne"  -> <<"Error destroying ", sid, ": ">> \o message
    [] call = "deleteMany" -> <<"Error clearing all sessions: ">> \o message
    [] call = "find"       -> <<"Error gathering sessions">>

\* a connect error text that leaves the driver's message out
ConnectErrorMsgNoCause(message) == <<"Error connecting to db: ">>

\* 'Error connecting to db: ' + error.message, a text as the sequence of its parts
ConnectErrorMsg(message) == <<"Error connecting to db: ">> \o message
IndexErrorMsg(message)   == <<"Error creating index: ">> \o message

\* ---------------------------------------------------------------- options
\* JavaScript values: a tag, and the string or the number the tag announces
Undefined == [t |-> "undefined", s |-> "", n |-> 0]
Null      == [t |-> "null", s |-> "", n |-> 0]
Str(x)    == [t |-> "string", s |-> x, n |-> 0]
Num(x)    == [t |-> "number", s |-> "", n |-> x]

\* value == null
IsNullish(v) == v.t \in {"undefined", "null"}

\* !value
Falsy(v) == IsNullish(v) \/ v = Num(0) \/ v = Str("")

OptionKeys == {"uri", "collection", "connectionOptions", "expires", "idField",
               "databaseName", "expiresKey", "expiresAfterSeconds"}

\* an options object that sets no key
NoOptions == [k \in OptionKeys |-> Undefined]

\* the $default of each path of OptionsType
OptionsDefault(k) ==
  CASE k = "uri"                 -> Str("mongodb://127.0.0.1:27017/test")
    [] k = "collection"          -> Str("sessions")
    [] k = "connectionOptions"   -> Null
    [] k = "expires"             -> Num(1000 * 60 * 60 * 24 * 14)
    [] k = "idField"             -> Str("_id")
    [] k = "databaseName"        -> Null
    [] k = "expiresKey"          -> Str("expires")
    [] k = "expiresAfterSeconds" -> Num(0)

\* an options type that gives every falsy path its default
OptionsTypeFalsy(o) == [k \in OptionKeys |-> IF Falsy(o[k]) THEN OptionsDefault(k) ELSE o[k]]

\* new OptionsType(options): a path that is null or undefined takes its $default
OptionsType(o) == [k \in OptionKeys |-> IF IsNullish(o[k]) THEN OptionsDefault(k) ELSE o[k]]

\* the defaults object of the callback generation
MergeDefaults ==
  [uri |-> Str("mongodb://localhost:27017/test"), collection |-> Str("sessions"),
   connectionOptions |-> Str("{}"), expires |-> Num(1000 * 60 * 60 * 24 * 14),
   idField |-> Str("_id")]

\* mergeOptions(options, defaults): options[key] = options[key] || defaults[key]
MergeOptions(o) ==
  [k \in OptionKeys |->
     IF k \in DOMAIN MergeDefaults /\ Falsy(o[k]) THEN MergeDefaults[k] ELSE o[k]]

\* the constructor's arguments: nothing, a callback alone, or an options object
\* with or without a callback
NoArguments == [first |-> "undefined", opts |-> NoOptions, cb |-> FALSE]

\* `if (typeof options === 'function') { callback = options; options = {}; }
\*  else { options = options || {}; }`
NormalizeOptions(args) == IF args.first = "object" THEN args.opts ELSE NoOptions
NormalizeCallback(args) == IF args.first = "function" THEN TRUE ELSE args.cb

\* this.options after the constructor
ResolveOptions(v, args) ==
  IF v = "promise" THEN OptionsType(NormalizeOptions(args))
                   ELSE MergeOptions(NormalizeOptions(args))

\* the values an application passes for each option
SuppliedValues(k) ==
  CASE k = "uri"                 -> {Undefined, Str("mongodb://host:1111/db")}
    [] k = "collection"          -> {Undefined, Str("notSessions")}
    [] k = "connectionOptions"   -> {Undefined}
    [] k = "expires"             -> {Undefined, Num(0), Num(25)}
    [] k = "idField"             -> {Undefined, Str("sessionId")}
    [] k = "databaseName"        -> {Undefined, Str("other_db")}
    [] k = "expiresKey"          -> {Undefined, Str("expiresAt")}
    [] k = "expiresAfterSeconds" -> {Undefined, Num(0), Num(10)}

SuppliedOptions ==
  {[uri |-> a, collection |-> b, connectionOptions |-> c, expires |-> d, idField |-> e,
    databaseName |-> f, expiresKey |-> g, expiresAfterSeconds |-> h] :
     a \in SuppliedValues("uri"), b \in SuppliedValues("collection"),
     c \in SuppliedValues("connectionOptions"), d \in SuppliedValues("expires"),
     e \in SuppliedValues("idField"), f \in SuppliedValues("databaseName"),
     g \in SuppliedValues("expiresKey"), h \in SuppliedValues("expiresAfterSeconds")}

ConstructorArguments ==
  {NoArguments, [first |-> "function", opts |-> NoOptions, cb |-> FALSE]}
    \cup {[first |-> "object", opts |-> o, cb |-> cb] : o \in SuppliedOptions, cb \in BOOLEAN}

\* an index on the fixed field expires, its documents expiring at once
IndexRequestFixed(v, opts) == <<"expires", 0>>

\* what the constructor asks createIndex for: the field, and expireAfterSeconds.
\* The callback generation asks ensureIndex for { expires: 1 } and 0.
IndexRequest(v, opts) ==
  IF v = "promise" THEN <<opts["expiresKey"].s, opts["expiresAfterSeconds"].n>>
                   ELSE <<"expires", 0>>

\* a store constructed without an options argument: this.options holds what
\* the constructor resolves
OptionsUnused == supplied = NoArguments /\ options = ResolveOptions(variant, NoArguments)

\* ---------------------------------------------------------------- handleError
\* _emitter.emit('error', error)
EmitError(L, error, op) ==
  IF L \in {"on", "once"} THEN <<Ev("error", op, 1, error, <<>>)>> ELSE <<>>

\* a once-listener is removed when it is called
AfterEmit(L) == IF L = "once" THEN "gone" ELSE L

\* a handleError that gives the error to the callback or else to the listener,
\* never to both
HandleErrorEitherOr(error, callback, op, L) ==
  LET emits == Registered(L) # 0 /\ ~callback
      L1    == IF emits THEN AfterEmit(L) ELSE L
  IN  [events    |-> IF callback THEN <<Ev("cb", op, 0, error, <<>>)>>
                     ELSE IF emits THEN EmitError(L, error, op) ELSE <<>>,
       listeners |-> L1,
       threw     |-> (Registered(L1) = 0) /\ ~callback]

\* a handleError that never throws
HandleErrorSwallows(error, callback, op, L) ==
  LET emits == Registered(L) # 0
  IN  [events    |-> (IF emits THEN EmitError(L, error, op) ELSE <<>>) \o
                     (IF callback THEN <<Ev("cb", op, 0, error, <<>>)>> ELSE <<>>),
       listeners |-> IF emits THEN AfterEmit(L) ELSE L,
       threw     |-> FALSE]

\* a handleError that calls the callback before and after the emit
HandleErrorCallsTwice(error, callback, op, L) ==
  LET emits   == Registered(L) # 0
      L1      == IF emits THEN AfterEmit(L) ELSE L
      emitted == IF emits THEN EmitError(L, error, op) ELSE <<>>
      called  == IF callback THEN <<Ev("cb", op, 0, error, <<>>)>> ELSE <<>>
  IN  [events    |-> called \o emitted \o called,
       listeners |-> L1,
       threw     |-> (Registered(L1) = 0) /\ ~callback]

\* a handleError that calls the callback first and emits 'error' after it
HandleErrorCallbackFirst(error, callback, op, L) ==
  LET emits   == Registered(L) # 0
      L1      == IF emits THEN AfterEmit(L) ELSE L
      emitted == IF emits THEN EmitError(L, error, op) ELSE <<>>
      called  == IF callback THEN <<Ev("cb", op, 0, error, <<>>)>> ELSE <<>>
  IN  [events    |-> called \o emitted,
       listeners |-> L1,
       threw     |-> (Registered(L1) = 0) /\ ~callback]

\* handleError(error, callback), called for operation op (0: the constructor)
\* with the 'error' listeners L.  threw: the function ended in `throw error`.
HandleError(error, callback, op, L) ==
  LET emits   == Registered(L) # 0
      L1      == IF emits THEN AfterEmit(L) ELSE L
      emitted == IF emits THEN EmitError(L, error, op) ELSE <<>>
      called  == IF callback THEN <<Ev("cb", op, 0, error, <<>>)>> ELSE <<>>
  IN  [events    |-> emitted \o called,
       listeners |-> L1,
       threw     |-> (Registered(L1) = 0) /\ ~callback]

\* how: "sync" leaves the call the application made; "async" leaves a driver
\* callback or rejects a promise nobody handles
Thrown(error, op, how) == <<Ev("throw", op, 0, error, <<how>>)>>

\* ---------------------------------------------------------------- dispatch
NoArgs == [kind |-> "", sid |-> "", payload |-> "", hasCb |-> FALSE]

Args(kind, sid, payload, cb) == [kind |-> kind, sid |-> sid, payload |-> payload, hasCb |-> cb]

\* the request a database call leaves in flight
Request(op, call, a) == [op |-> op, call |-> call, sid |-> a.sid, payload |-> a.payload, hasCb |-> a.hasCb]

\* the part of get/set/destroy/clear after the buffering guard: the database call
\* via: "direct" from the application's call, "replay" from the 'connected'
\* listener a buffered call left, "expiry" from get's destroy of a stale session
DispatchCalls(op, a, via) ==
  <<[op |-> op, call |-> CallOf(a.kind), sid |-> a.sid, payload |-> a.payload, via |-> via]>>

DispatchRequests(op, a) == {Request(op, CallOf(a.kind), a)}

\* `if (!this.db) return this._emitter.once('connected', ...)`: only the callback
\* generation has the guard; the promise generation calls this.collection at once
Buffers == variant = "callback" /\ ~db

\* ---------------------------------------------------------------- emit('connected')
UserListener(kind, n) == [type |-> "user", kind |-> kind, id |-> n, args |-> NoArgs]
OpListener(op, a)     == [type |-> "op", kind |-> "once", id |-> op, args |-> a]

\* a listener of the application whose body calls an operation of the store
\* with the arguments a
InvokingListener(kind, n, a) == [type |-> "user", kind |-> kind, id |-> n, args |-> a]
Invokes(l) == l.type = "user" /\ l.args # NoArgs

\* the arguments of the operations the application's listeners invoke, in the
\* order the listeners are called
InvokedBy(ls) ==
  LET us == SelectSeq(ls, Invokes) IN [k \in DOMAIN us |-> us[k].args]

RECURSIVE ConnectedEvents(_)
\* the application's listeners, called in registration order
ConnectedEvents(ls) ==
  IF ls = <<>> THEN <<>>
  ELSE (IF Head(ls).type = "user"
        THEN <<Ev("connected", 0, Head(ls).id, NoErr, <<>>)>> ELSE <<>>)
       \o ConnectedEvents(Tail(ls))

RECURSIVE ConnectedCallsReversed(_)
\* an emit that calls the listeners last-registered first
ConnectedCallsReversed(ls) ==
  IF ls = <<>> THEN <<>>
  ELSE ConnectedCallsReversed(Tail(ls)) \o
       (IF Head(ls).type = "op" THEN DispatchCalls(Head(ls).id, Head(ls).args, "replay") ELSE <<>>)

RECURSIVE ConnectedCallsFrom(_, _)
\* the listeners are called in registration order.  A buffered operation
\* re-enters its method with the arguments it captured; an operation that a
\* listener of the application invokes is the store's n-th.  this.db is set by
\* now, so either one issues its database call at once.
ConnectedCallsFrom(ls, n) ==
  IF ls = <<>> THEN <<>>
  ELSE IF Head(ls).type = "op"
       THEN DispatchCalls(Head(ls).id, Head(ls).args, "replay") \o ConnectedCallsFrom(Tail(ls), n)
       ELSE IF Invokes(Head(ls))
            THEN DispatchCalls(n, Head(ls).args, "direct") \o ConnectedCallsFrom(Tail(ls), n + 1)
            ELSE ConnectedCallsFrom(Tail(ls), n)

ConnectedCalls(ls) == ConnectedCallsFrom(ls, Len(ops) + 1)

\* a replay that issues no database call
ConnectedRequestsNone(ls) == {}

ConnectedRequests(ls) ==
  UNION ({DispatchRequests(ls[i].id, ls[i].args) : i \in {j \in DOMAIN ls : ls[j].type = "op"}}
         \cup {DispatchRequests(Len(ops) + k, InvokedBy(ls)[k]) : k \in DOMAIN InvokedBy(ls)})

IsOn(l) == l.kind = "on"

EmitConnected(ls) ==
  [events    |-> <<Ev("emit", 0, 0, NoErr, <<"connected">>)>> \o ConnectedEvents(ls),
   calls     |-> ConnectedCalls(ls),
   requests  |-> ConnectedRequests(ls),
   invoked   |-> InvokedBy(ls),
   listeners |-> SelectSeq(ls, IsOn)]

\* ---------------------------------------------------------------- the constructor
Started == phase \notin {"new", "threw"}

\* the log with events appended to operation op's part
Logged(op, events) == [log EXCEPT ![op] = @ \o events]

\* the driver reports a failure with this error.message (an input, logged so
\* that what the store makes of it can be told from it)
Failure(op, cause) == <<Ev("fail", op, 0, NoErr, <<cause>>)>>

\* new MongoDBStore(options, callback); the driver answers connect later
Construct(cb) ==
  /\ phase = "new"
  /\ phase' = "connecting"
  /\ hasCallback' = cb
  /\ db' = (variant = "promise")
  /\ UNCHANGED <<variant, connectRes, indexRes, errListeners, connListeners, ops,
                 inflight, tick, dbCalls, log>>

\* new MongoDBStore(options, callback) with a driver that calls the connect
\* callback with an error before connect returns (callback generation only:
\* a promise never runs its handlers synchronously)
ConstructSyncFail(cb, cause) ==
  /\ phase = "new"
  /\ variant = "callback"
  /\ LET e == NewError("connect", 0, ConnectErrorMsg(<<cause>>))
         r == HandleError(e, cb, 0, errListeners)
     IN  /\ log' = Logged(0, Failure(0, cause) \o r.events \o
                             (IF r.threw THEN Thrown(e, 0, "sync") ELSE <<>>))
         /\ errListeners' = r.listeners
         /\ phase' = IF r.threw THEN "threw" ELSE "settled"
  /\ hasCallback' = cb
  /\ connectRes' = "fail"
  /\ UNCHANGED <<variant, indexRes, db, connListeners, ops, inflight, tick, dbCalls>>

\* the promise chain's final .catch(error => ...), for an error with this message
CatchConnect(message, L) ==
  LET e == NewError("connect", 0, ConnectErrorMsg(message))
      r == HandleError(e, hasCallback, 0, L)
  IN  [events    |-> r.events \o
                     (IF r.threw \/ ~hasCallback THEN Thrown(e, 0, "async") ELSE <<>>),
       listeners |-> r.listeners]

\* the connect callback's `if (error)` branch of the callback generation
ConnectError(message, L) ==
  LET e == NewError("connect", 0, ConnectErrorMsg(message))
      r == HandleError(e, hasCallback, 0, L)
  IN  [events    |-> r.events \o (IF r.threw THEN Thrown(e, 0, "async") ELSE <<>>),
       listeners |-> r.listeners]

\* the driver reports that connect failed
ConnectFail(cause) ==
  /\ phase = "connecting"
  /\ ~tick
  /\ connectRes' = "fail"
  /\ phase' = "settled"
  /\ LET c == IF variant = "callback" THEN ConnectError(<<cause>>, errListeners)
                                      ELSE CatchConnect(<<cause>>, errListeners)
     IN  /\ log' = Logged(0, Failure(0, cause) \o c.events)
         /\ errListeners' = c.listeners
  /\ UNCHANGED <<variant, hasCallback, indexRes, db, connListeners, ops, inflight, tick,
                 dbCalls>>

\* the driver reports that connect succeeded: the index is asked for
ConnectOk ==
  /\ phase = "connecting"
  /\ ~tick
  /\ connectRes' = "ok"
  /\ indexRes' = "pending"
  /\ phase' = "indexing"
  /\ log' = Logged(0, <<Ev("index", 0, 0, NoErr, IndexRequest(variant, options))>>)
  /\ UNCHANGED <<variant, hasCallback, db, errListeners, connListeners, ops, inflight, tick,
                 dbCalls>>

\* a continuation that calls the callback at once and queues it as well
ConnectedCallsBackTwice(pre) ==
  LET c == EmitConnected(connListeners)
  IN  /\ connListeners' = c.listeners
      /\ ops' = ops \o c.invoked
      /\ inflight' = inflight \cup c.requests
      /\ dbCalls' = dbCalls \o c.calls
      /\ log' = Logged(0, pre \o c.events \o
                          (IF hasCallback THEN <<Ev("cb", 0, 0, NoErr, <<>>)>> ELSE <<>>))
      /\ tick' = TRUE

\* a continuation that calls the callback first and emits 'connected' after it
ConnectedCallbackFirst(pre) ==
  LET c == EmitConnected(connListeners)
  IN  /\ connListeners' = c.listeners
      /\ ops' = ops \o c.invoked
      /\ inflight' = inflight \cup c.requests
      /\ dbCalls' = dbCalls \o c.calls
      /\ log' = Logged(0, pre \o (IF hasCallback THEN <<Ev("cb", 0, 0, NoErr, <<>>)>> ELSE <<>>)
                              \o c.events)
      /\ tick' = FALSE

\* what follows a created index.  Callback generation: emit('connected'), then
\* `callback && callback()`.  Promise generation: the callback is queued with
\* process.nextTick, then emit('connected').  pre: what the step logged before.
Connected(pre) ==
  LET c == EmitConnected(connListeners)
  IN  /\ connListeners' = c.listeners
      /\ ops' = ops \o c.invoked
      /\ inflight' = inflight \cup c.requests
      /\ dbCalls' = dbCalls \o c.calls
      /\ IF variant = "callback"
         THEN /\ log' = Logged(0, pre \o c.events \o
                                  (IF hasCallback THEN <<Ev("cb", 0, 0, NoErr, <<>>)>> ELSE <<>>))
              /\ tick' = FALSE
         ELSE /\ log' = Logged(0, pre \o c.events)
              /\ tick' = TRUE

\* the driver reports that the index exists
IndexOk ==
  /\ phase = "indexing"
  /\ ~tick
  /\ indexRes' = "ok"
  /\ phase' = "settled"
  /\ db' = TRUE
  /\ Connected(<<>>)
  /\ UNCHANGED <<variant, hasCallback, connectRes, errListeners>>

\* an index failure whose handler falls through to emit('connected')
IndexFailThenConnected(cause) ==
  /\ phase = "indexing"
  /\ ~tick
  /\ indexRes' = "fail"
  /\ phase' = "settled"
  /\ LET e == NewError("index", 0, IndexErrorMsg(<<cause>>))
         r == HandleError(e, hasCallback, 0, errListeners)
     IN  /\ errListeners' = r.listeners
         /\ Connected(Failure(0, cause) \o r.events)
  /\ UNCHANGED <<variant, hasCallback, connectRes, db>>

\* the driver reports that creating the index failed
IndexFail(cause) ==
  /\ phase = "indexing"
  /\ ~tick
  /\ indexRes' = "fail"
  /\ phase' = "settled"
  /\ LET e == NewError("index", 0, IndexErrorMsg(<<cause>>))
         r == HandleError(e, hasCallback, 0, errListeners)
     IN  IF variant = "callback"
         THEN /\ log' = Logged(0, Failure(0, cause) \o r.events \o
                                  (IF r.threw THEN Thrown(e, 0, "async") ELSE <<>>))
              /\ errListeners' = r.listeners
              /\ UNCHANGED <<connListeners, ops, inflight, tick, dbCalls>>
         ELSE IF r.threw
              \* createIndex(...).catch rethrows: the chain's last .catch runs
              THEN LET c == CatchConnect(e.msg, r.listeners)
                   IN  /\ log' = Logged(0, Failure(0, cause) \o r.events \o
                                           Thrown(e, 0, "caught") \o c.events)
                       /\ errListeners' = c.listeners
                       /\ UNCHANGED <<connListeners, ops, inflight, tick, dbCalls>>
              \* createIndex(...).catch returns: the chain's next .then runs
              ELSE /\ errListeners' = r.listeners
                   /\ Connected(Failure(0, cause) \o r.events)
  /\ UNCHANGED <<variant, hasCallback, connectRes, db>>

\* process.nextTick(() => callback && callback()) runs
Tick ==
  /\ tick
  /\ tick' = FALSE
  /\ log' = Logged(0, IF hasCallback THEN <<Ev("cb", 0, 0, NoErr, <<>>)>> ELSE <<>>)
  /\ UNCHANGED <<variant, phase, hasCallback, connectRes, indexRes, db, errListeners,
                 connListeners, ops, inflight, dbCalls>>

\* ---------------------------------------------------------------- listeners
\* store.on('error', fn) / store.once('error', fn), called right after the
\* constructor as the README shows
RegisterError(kind) ==
  /\ phase = "connecting"
  /\ ops = <<>>
  /\ errListeners = "none"
  /\ errListeners' = kind
  /\ UNCHANGED <<variant, phase, hasCallback, connectRes, indexRes, db, connListeners,
                 ops, inflight, tick, dbCalls, log>>

UserCount(ls) == Cardinality({i \in DOMAIN ls : ls[i].type = "user"})

\* store.on('connected', fn) / store.once('connected', fn), called right after
\* the constructor
RegisterConnected(kind) ==
  /\ phase = "connecting"
  /\ ops = <<>>
  /\ UserCount(connListeners) = 0
  /\ connListeners' = Append(connListeners, UserListener(kind, 1))
  /\ UNCHANGED <<variant, phase, hasCallback, connectRes, indexRes, db, errListeners,
                 ops, inflight, tick, dbCalls, log>>

\* store.on('connected', fn) / store.once('connected', fn) right after the
\* constructor, with an fn that calls store.get / set / destroy / clear
RegisterInvoking(kind, a) ==
  /\ phase = "connecting"
  /\ ops = <<>>
  /\ UserCount(connListeners) = 0
  /\ connListeners' = Append(connListeners, InvokingListener(kind, 1, a))
  /\ UNCHANGED <<variant, phase, hasCallback, connectRes, indexRes, db, errListeners,
                 ops, inflight, tick, dbCalls, log>>

\* the operations the registered listeners are still to invoke
Reserved == Len(InvokedBy(connListeners))

\* ---------------------------------------------------------------- operations
\* READY: connect and the index creation have both succeeded
Ready == connectRes = "ok" /\ indexRes = "ok"

\* store.get / set / destroy / clear called by the application with arguments a
Invoke(a) ==
  /\ Started
  /\ ~tick
  /\ Len(ops) + Reserved < MaxOps
  /\ LET op == Len(ops) + 1
     IN  /\ ops' = Append(ops, a)
         /\ IF Buffers
            THEN /\ connListeners' = Append(connListeners, OpListener(op, a))
                 /\ UNCHANGED <<inflight, dbCalls>>
            ELSE /\ inflight' = inflight \cup DispatchRequests(op, a)
                 /\ dbCalls' = dbCalls \o DispatchCalls(op, a, "direct")
                 /\ UNCHANGED connListeners
  /\ UNCHANGED <<variant, phase, hasCallback, connectRes, indexRes, db, errListeners, tick,
                 log>>

Get(sid, cb)          == Invoke(Args("get", sid, "", cb))
Set(sid, payload, cb) == Invoke(Args("set", sid, payload, cb))
Destroy(sid, cb)      == Invoke(Args("destroy", sid, "", cb))
Clear(cb)             == Invoke(Args("clear", "", "", cb))

\* store.all(callback), which only the promise generation has
All(cb) == variant = "promise" /\ Invoke(Args("all", "", "", cb))

\* a failed database call after which the store lets go of its connection
ReplyFailDropsHandle(r, cause) ==
  /\ r \in inflight
  /\ ~tick
  /\ LET e == NewError(r.call, r.op, OpErrorMsg(r.call, r.sid, r.payload, <<cause>>))
         h == HandleError(e, r.hasCb, r.op, errListeners)
     IN  /\ log' = Logged(r.op, Failure(r.op, cause) \o h.events \o
                                (IF h.threw THEN Thrown(e, r.op, "async") ELSE <<>>))
         /\ errListeners' = h.listeners
  /\ inflight' = inflight \ {r}
  /\ db' = FALSE
  /\ UNCHANGED <<variant, phase, hasCallback, connectRes, indexRes, connListeners,
                 ops, tick, dbCalls>>

\* the database call r failed: the error is wrapped and handed to handleError
ReplyFail(r, cause) ==
  /\ r \in inflight
  /\ ~tick
  /\ LET e == NewError(r.call, r.op, OpErrorMsg(r.call, r.sid, r.payload, <<cause>>))
         h == HandleError(e, r.hasCb, r.op, errListeners)
     IN  /\ log' = Logged(r.op, Failure(r.op, cause) \o h.events \o
                                (IF h.threw THEN Thrown(e, r.op, "async") ELSE <<>>))
         /\ errListeners' = h.listeners
  /\ inflight' = inflight \ {r}
  /\ UNCHANGED <<variant, phase, hasCallback, connectRes, indexRes, db, connListeners,
                 ops, tick, dbCalls>>

\* what findOne can answer: no document, one that has not expired, one that has
Found == {"none", "fresh", "stale"}

\* a get that hands the stale session to the callback and destroys it as well
ReplyOkDeliversStale(r, found) ==
  /\ r \in inflight
  /\ ~tick
  /\ IF r.call = "findOne" /\ found = "stale"
     THEN LET a == Args("destroy", r.sid, "", r.hasCb)
          IN  /\ inflight' = (inflight \ {r}) \cup DispatchRequests(r.op, a)
              /\ dbCalls' = dbCalls \o DispatchCalls(r.op, a, "expiry")
              /\ log' = Logged(r.op, <<Ev("cb", r.op, 0, NoErr, <<"session">>)>>)
     ELSE /\ inflight' = inflight \ {r}
          /\ log' = Logged(r.op,
               IF r.hasCb
               THEN <<Ev("cb", r.op, 0, NoErr,
                         IF r.call = "findOne" /\ found = "fresh" THEN <<"session">> ELSE <<>>)>>
               ELSE <<>>)
          /\ UNCHANGED dbCalls
  /\ UNCHANGED <<variant, phase, hasCallback, connectRes, indexRes, db, errListeners,
                 connListeners, ops, tick>>

\* the database call r succeeded (found: what a findOne found)
ReplyOk(r, found) ==
  /\ r \in inflight
  /\ ~tick
  /\ IF r.call = "findOne" /\ found = "stale"
     \* return _this.destroy(id, callback)
     THEN LET a == Args("destroy", r.sid, "", r.hasCb)
          IN  /\ inflight' = (inflight \ {r}) \cup DispatchRequests(r.op, a)
              /\ dbCalls' = dbCalls \o DispatchCalls(r.op, a, "expiry")
              /\ UNCHANGED log
     ELSE /\ inflight' = inflight \ {r}
          /\ log' = Logged(r.op,
               IF r.hasCb
               THEN <<Ev("cb", r.op, 0, NoErr,
                         IF r.call = "findOne" /\ found = "fresh" THEN <<"session">>
                         ELSE IF r.call = "find" THEN <<"sessions">> ELSE <<>>)>>
               ELSE <<>>)
          /\ UNCHANGED dbCalls
  /\ UNCHANGED <<variant, phase, hasCallback, connectRes, indexRes, db, errListeners,
                 connListeners, ops, tick>>

\* ---------------------------------------------------------------- initial state
Init ==
  /\ variant \in Variants
  /\ phase = "new"
  /\ hasCallback = FALSE
  /\ connectRes = "pending"
  /\ indexRes = "none"
  /\ db = FALSE
  /\ errListeners = "none"
  /\ connListeners = <<>>
  /\ ops = <<>>
  /\ inflight = {}
  /\ tick = FALSE
  /\ dbCalls = <<>>
  /\ log = [o \in 0..MaxOps |-> <<>>]

\* ---------------------------------------------------------------- specification
Next ==
  \/ \E cb \in BOOLEAN : Construct(cb)
  \/ \E cb \in BOOLEAN, c \in Causes : ConstructSyncFail(cb, c)
  \/ ConnectOk
  \/ \E c \in Causes : ConnectFail(c)
  \/ IndexOk
  \/ \E c \in Causes : IndexFail(c)
  \/ Tick
  \/ \E k \in {"on", "once"} : RegisterError(k)
  \/ \E k \in {"on", "once"} : RegisterConnected(k)
  \/ \E sid \in Sids : Get(sid, TRUE)
  \/ \E sid \in Sids, p \in Payloads, cb \in BOOLEAN : Set(sid, p, cb)
  \/ \E sid \in Sids : Destroy(sid, TRUE)
  \/ Clear(TRUE)
  \/ \E r \in inflight, c \in Causes : ReplyFail(r, c)
  \/ \E r \in inflight : \E f \in (IF r.call = "findOne" THEN Found ELSE {"none"}) : ReplyOk(r, f)


\* ---------------------------------------------------------------- sessions and documents
\* a point in time as the application holds it: a Date, or the ISO text of one
NoDate       == [rep |-> "none", ms |-> 0]
DateOf(ms)   == [rep |-> "date", ms |-> ms]
IsoString(ms) == [rep |-> "iso", ms |-> ms]

\* new Date(value).getTime(): a Date is copied, an ISO text is parsed
NewDate(v) == CASE v.rep = "date" -> v.ms
                [] v.rep = "iso"  -> v.ms

\* session.cookie: absent, a plain object, or an object with a toJSON method
NoCookie == [kind |-> "none", expires |-> NoDate]

\* what cookie.toJSON() returns: a value of its own
CookieToJSON(c) == [kind |-> "json", expires |-> c.expires]

Cookies == {NoCookie,
            [kind |-> "plain", expires |-> IsoString(1)],
            [kind |-> "toJSON", expires |-> DateOf(2)]}

Sessions == {[data |-> "d", cookie |-> c] : c \in Cookies}

\* the callback's second argument when there is none
NoSession == [data |-> "", cookie |-> NoCookie]

Ids == {"a"}

\* a copy that keeps the cookie as it is
CopySessionKeepsCookie(session) == session

\* `for (key in session) sess[key] = ...`: a shallow copy, the cookie replaced
\* by its toJSON() when it has one
CopySession(session) ==
  [session EXCEPT !.cookie = IF @.kind = "toJSON" THEN CookieToJSON(@) ELSE @]

\* session && session.cookie && session.cookie.expires
HasCookieExpires(session) ==
  session.cookie.kind # "none" /\ session.cookie.expires.rep # "none"

\* an expiry that ignores the cookie
ExpiresOfIgnoresCookie(session, t, opts) == t + opts["expires"].n

\* the expiry set() computes at time t
ExpiresOf(session, t, opts) ==
  IF HasCookieExpires(session) THEN NewDate(session.cookie.expires)
                               ELSE t + opts["expires"].n

\* a document's expiry: the field that holds it (none: "") and its time
NoExpires == [key |-> "", ms |-> 0]

\* the field set() writes the expiry to
ExpiresKey(v, opts) == IF v = "promise" THEN opts["expiresKey"].s ELSE "expires"

\* a query that always selects by _id
GenerateQueryById(opts, id) == [field |-> "_id", value |-> id]

\* a document's identifier: the field that holds it and the session id
\* _generateQuery(id): { [idField]: id }
GenerateQuery(opts, id) == [field |-> opts["idField"].s, value |-> id]

\* the object s that set() hands to the database
SetDocument(v, opts, id, session, t) ==
  [idField |-> GenerateQuery(opts, id).field, id |-> GenerateQuery(opts, id).value,
   session |-> CopySession(session),
   expires |-> [key |-> ExpiresKey(v, opts), ms |-> ExpiresOf(session, t, opts)],
   foreign |-> FALSE]

NoDoc == [idField |-> "", id |-> "", session |-> NoSession, expires |-> NoExpires, foreign |-> FALSE]

\* a document another program wrote under this identifier: no expiry, fields
\* of its own
ForeignDoc(id) ==
  [idField |-> GenerateQuery(options, id).field, id |-> id, session |-> [data |-> "d", cookie |-> NoCookie], expires |-> NoExpires,
   foreign |-> TRUE]

\* ---------------------------------------------------------------- the database
\* a query that matches every document
MatchingAny(c, id) == c

\* the documents the query _generateQuery(id) matches
Matching(c, id) ==
  {d \in c : d.idField = GenerateQuery(options, id).field
              /\ d.id = GenerateQuery(options, id).value}

\* an update that writes the session and keeps the expiry the document had
UpdatedKeepsExpiry(v, d, s) ==
  [s EXCEPT !.expires = IF d.expires.key # "" THEN d.expires ELSE @,
            !.foreign = IF v = "promise" THEN d.foreign ELSE FALSE]

\* updateOne(query, { $set: s }, { upsert: true }) keeps the fields s does not
\* name; update(query, s, { upsert: true }) replaces the document
Updated(v, d, s) == [s EXCEPT !.foreign = IF v = "promise" THEN d.foreign ELSE FALSE]

\* an update that always inserts
UpsertedInserts(v, c, s) == {c \cup {s}}

\* the collections an upsert of s can leave
Upserted(v, c, s) ==
  IF Matching(c, s.id) = {} THEN {c \cup {s}}
  ELSE {(c \ {d}) \cup {Updated(v, d, s)} : d \in Matching(c, s.id)}

\* a deleteOne that removes nothing
DeletedOneNothing(c, id) == {c}

\* the collections deleteOne(query) can leave
DeletedOne(c, id) ==
  IF Matching(c, id) = {} THEN {c} ELSE {c \ {d} : d \in Matching(c, id)}

\* a deleteMany that spares the documents of other programs
DeletedManyOwn(c) == {d \in c : d.foreign}

\* deleteMany({})
DeletedMany(c) == {}

\* a findOne that answers with a document when none matches
FoundOnePhantom(c, id) == IF Matching(c, id) = {} THEN {ForeignDoc(id)} ELSE Matching(c, id)

\* what findOne(query) can answer
FoundOne(c, id) == IF Matching(c, id) = {} THEN {NoDoc} ELSE Matching(c, id)

\* a freshness test that takes a document without expiry for expired
IsFreshNeedsExpiry(d, t) == d.expires.key = "expires" /\ t < d.expires.ms

\* a freshness test that asks for a millisecond to spare
IsFreshWithMargin(d, t) == d.expires.key # "expires" \/ t + 1 < d.expires.ms

\* `!session.expires || new Date < session.expires`, read at time t
IsFresh(d, t) == d.expires.key # "expires" \/ t < d.expires.ms

\* the TTL index the constructor asks for: on expiresKey, expireAfterSeconds
\* later (1000 ms each); the database may remove a document it covers
TtlExpired(v, opts, d, t) ==
  /\ d.expires.key = ExpiresKey(v, opts)
  /\ d.expires.ms + 1000 * (IF v = "promise" THEN opts["expiresAfterSeconds"].n ELSE 0) <= t

\* ---------------------------------------------------------------- calls on a connected store
allVars == <<vars, optionVars, collVars>>

\* util.inspect(session), the text a failed set() reports
Inspect(session) == [inspect |-> session]

\* callback(error, session), called by `method` for the operation with this
\* id and session
Result(method, id, session, err, val) ==
  [method |-> method, id |-> id, session |-> session, err |-> err, val |-> val]

NoResult == Result("", "", NoSession, <<>>, NoSession)

\* the request a database call leaves pending; method: the operation whose
\* callback the answer goes to
NoQuery == [field |-> "", value |-> ""]

DbRequest(op, method, call, id, session, doc) ==
  [op |-> op, method |-> method, call |-> call, id |-> id, session |-> session, doc |-> doc,
   query |-> IF call = "deleteMany" THEN NoQuery ELSE GenerateQuery(options, id)]

\* get / set / destroy / clear called by the application: the database call is
\* issued with what the method computed at the time of the call
StoreCall(kind, id, session) ==
  /\ count < MaxCalls
  /\ count' = count + 1
  /\ LET doc == IF kind = "set" THEN SetDocument(variant, options, id, session, now)
                                ELSE NoDoc
     IN  pending' = pending \cup {DbRequest(count + 1, kind, CallOf(kind), id, session, doc)}
  /\ UNCHANGED <<vars, optionVars, now, coll, last, lastSet>>

StoreGet(id)          == StoreCall("get", id, NoSession)
StoreSet(id, session) == StoreCall("set", id, session)
StoreDestroy(id)      == StoreCall("destroy", id, NoSession)
StoreClear            == StoreCall("clear", "", NoSession)

\* a get that destroys whatever document it finds
FindOneReplyDestroys(r) ==
  /\ r \in pending /\ r.call = "findOne"
  /\ \E d \in FoundOne(coll, r.id) :
       IF d # NoDoc
       THEN /\ pending' = (pending \ {r}) \cup
                            {DbRequest(r.op, r.method, "deleteOne", r.id, NoSession, NoDoc)}
            /\ UNCHANGED last
       ELSE /\ pending' = pending \ {r}
            /\ last' = Result(r.method, r.id, r.session, <<>>, NoSession)
  /\ UNCHANGED <<vars, optionVars, now, coll, count, lastSet>>

\* the database answers findOne: get's then(session => ...)
FindOneReply(r) ==
  /\ r \in pending /\ r.call = "findOne"
  /\ \E d \in FoundOne(coll, r.id) :
       IF d # NoDoc /\ ~IsFresh(d, now)
       \* return _this.destroy(id, callback)
       THEN /\ pending' = (pending \ {r}) \cup
                            {DbRequest(r.op, r.method, "deleteOne", r.id, NoSession, NoDoc)}
            /\ UNCHANGED last
       ELSE /\ pending' = pending \ {r}
            /\ last' = Result(r.method, r.id, r.session, <<>>,
                              IF d = NoDoc THEN NoSession ELSE d.session)
  /\ UNCHANGED <<vars, optionVars, now, coll, count, lastSet>>

\* the database executes the upsert and answers: callback()
UpdateOneReply(r) ==
  /\ r \in pending /\ r.call = "updateOne"
  /\ coll' \in Upserted(variant, coll, r.doc)
  /\ lastSet' = [lastSet EXCEPT ![r.id] = r.doc]
  /\ pending' = pending \ {r}
  /\ last' = Result(r.method, r.id, r.session, <<>>, NoSession)
  /\ UNCHANGED <<vars, optionVars, now, count>>

\* the database executes deleteOne and answers: callback()
DeleteOneReply(r) ==
  /\ r \in pending /\ r.call = "deleteOne"
  /\ coll' \in DeletedOne(coll, r.id)
  /\ pending' = pending \ {r}
  /\ last' = Result(r.method, r.id, r.session, <<>>, NoSession)
  /\ UNCHANGED <<vars, optionVars, now, count, lastSet>>

\* the database executes deleteMany and answers: callback()
DeleteManyReply(r) ==
  /\ r \in pending /\ r.call = "deleteMany"
  /\ coll' = DeletedMany(coll)
  /\ pending' = pending \ {r}
  /\ last' = Result(r.method, r.id, r.session, <<>>, NoSession)
  /\ UNCHANGED <<vars, optionVars, now, count, lastSet>>

\* a call that reports a failure after the database has applied it
CallFailsApplied(r, cause) ==
  /\ r \in pending
  /\ pending' = pending \ {r}
  /\ coll' = IF r.call = "deleteMany" THEN DeletedMany(coll) ELSE coll \ Matching(coll, r.id)
  /\ last' = Result(r.method, r.id, r.session,
                    OpErrorMsg(r.call, r.id, Inspect(r.session), <<cause>>), NoSession)
  /\ UNCHANGED <<vars, optionVars, now, count, lastSet>>

\* the database call fails and changes nothing: handleError(e, callback)
CallFails(r, cause) ==
  /\ r \in pending
  /\ pending' = pending \ {r}
  /\ last' = Result(r.method, r.id, r.session,
                    OpErrorMsg(r.call, r.id, Inspect(r.session), <<cause>>), NoSession)
  /\ UNCHANGED <<vars, optionVars, now, coll, count, lastSet>>

\* a millisecond passes
Advance ==
  /\ now < MaxNow
  /\ now' = now + 1
  /\ UNCHANGED <<vars, optionVars, coll, count, pending, last, lastSet>>

\* the database's TTL monitor removes a document the index lets expire
TtlMonitor ==
  /\ \E d \in coll : TtlExpired(variant, options, d, now) /\ coll' = coll \ {d}
  /\ UNCHANGED <<vars, optionVars, now, count, pending, last, lastSet>>

\* the variables of the collection, for a behaviour that does not look at them
CollUnused ==
  /\ now = 0 /\ coll = {} /\ count = 0 /\ pending = {}
  /\ last = NoResult /\ lastSet = <<>>

\* a store that connected and created its index, before any operation
ConnectedStore ==
  /\ variant \in Variants
  /\ phase = "settled" /\ hasCallback = FALSE
  /\ connectRes = "ok" /\ indexRes = "ok" /\ db = TRUE
  /\ errListeners = "none" /\ connListeners = <<>>
  /\ ops = <<>> /\ inflight = {} /\ tick = FALSE /\ dbCalls = <<>>
  /\ log = [o \in 0..MaxOps |->
              IF o = 0 THEN <<Ev("index", 0, 0, NoErr, IndexRequest(variant, options)),
                              Ev("emit", 0, 0, NoErr, <<"connected">>)>>
                       ELSE <<>>]

\* the options the connected store was constructed with: expires, idField and,
\* for the generation that has the option, expiresKey
CrudArguments(v) ==
  {[first |-> "object", cb |-> FALSE,
    opts |-> [NoOptions EXCEPT !["expires"] = Num(2), !["expiresKey"] = k[1],
                               !["idField"] = k[2]]] :
     k \in IF v = "promise"
            THEN {<<Undefined, Undefined>>, <<Str("expiresAt"), Undefined>>,
                  <<Undefined, Str("sessionId")>>}
            ELSE {<<Undefined, Undefined>>, <<Undefined, Str("sessionId")>>}}

InitCrud ==
  /\ variant \in Variants
  /\ supplied \in CrudArguments(variant)
  /\ options = ResolveOptions(variant, supplied)
  /\ ConnectedStore
  /\ now = 0
  /\ coll \in {{}, {ForeignDoc("a")}}
  /\ count = 0
  /\ pending = {}
  /\ last = NoResult
  /\ lastSet = [i \in Ids |-> NoDoc]

\* the document an earlier set(id, session) of this store left, session
\* without a cookie, called at time 0
SessionOf(id) == SetDocument(variant, options, id, [data |-> "d", cookie |-> NoCookie], 0)

\* a connected store whose collection holds the session of another id
InitFrame ==
  /\ variant \in Variants
  /\ supplied \in CrudArguments(variant)
  /\ options = ResolveOptions(variant, supplied)
  /\ ConnectedStore
  /\ now = 0
  /\ coll \in {{SessionOf("b")}, {SessionOf("b"), ForeignDoc("a")}}
  /\ count = 0
  /\ pending = {}
  /\ last = NoResult
  /\ lastSet = [i \in Ids |-> NoDoc]

\* the store's construction and buffering, the collection left alone
InitStore == Init /\ OptionsUnused /\ CollUnused

Spec == InitStore /\ [][Next /\ UNCHANGED <<optionVars, collVars>>]_allVars

\* the store with its auxiliary all()
NextAll ==
  \/ Next
  \/ All(TRUE)

SpecAll == InitStore /\ [][NextAll /\ UNCHANGED <<optionVars, collVars>>]_allVars

\* the application may also invoke an operation from a 'connected' listener
NextListener ==
  \/ Next
  \/ \E k \in {"on", "once"}, sid \in Sids : RegisterInvoking(k, Args("get", sid, "", TRUE))

SpecListener == InitStore /\ [][NextListener /\ UNCHANGED <<optionVars, collVars>>]_allVars

\* the database answers a call
Reply ==
  \E r \in inflight :
    \/ \E c \in Causes : ReplyFail(r, c)
    \/ \E f \in (IF r.call = "findOne" THEN Found ELSE {"none"}) : ReplyOk(r, f)

\* the same, with what the driver and the event loop guarantee: every database
\* call returns, and a callback queued with process.nextTick runs
Fairness ==
  /\ WF_allVars(Reply /\ UNCHANGED <<optionVars, collVars>>)
  /\ WF_allVars(Tick /\ UNCHANGED <<optionVars, collVars>>)

SpecLive == Spec /\ Fairness

NextCrud ==
  \/ \E id \in Ids : StoreGet(id)
  \/ \E id \in Ids, session \in Sessions : StoreSet(id, session)
  \/ \E id \in Ids : StoreDestroy(id)
  \/ StoreClear
  \/ \E r \in pending : FindOneReply(r)
  \/ \E r \in pending : UpdateOneReply(r)
  \/ \E r \in pending : DeleteOneReply(r)
  \/ \E r \in pending : DeleteManyReply(r)
  \/ \E r \in pending, c \in Causes : CallFails(r, c)
  \/ Advance
  \/ TtlMonitor

SpecCrud == InitCrud /\ [][NextCrud]_allVars

SpecFrame == InitFrame /\ [][NextCrud]_allVars

\* ---------------------------------------------------------------- constructing with options
\* new MongoDBStore(options, callback): the arguments are normalised, the
\* options resolved, and the connect chain started
NewStore ==
  /\ Construct(NormalizeCallback(supplied))
  /\ options' = ResolveOptions(variant, supplied)
  /\ UNCHANGED <<supplied, collVars>>

InitOptions ==
  /\ Init
  /\ variant = "promise"
  /\ supplied \in ConstructorArguments
  /\ options = NoOptions
  /\ CollUnused

\* the connect chain the constructor started, the options left alone
ConnectChain ==
  /\ \/ ConnectOk
     \/ \E c \in Causes : ConnectFail(c)
     \/ IndexOk
     \/ \E c \in Causes : IndexFail(c)
     \/ Tick
  /\ UNCHANGED <<optionVars, collVars>>

NextOptions ==
  \/ NewStore
  \/ ConnectChain

SpecOptions == InitOptions /\ [][NextOptions]_allVars

\* ---------------------------------------------------------------- what the log shows
IsCb(e)     == e.ev = "cb"
IsHeard(e)  == e.ev = "error"
IsThrow(e)  == e.ev = "throw"
IsEmit(e)   == e.ev = "emit"
IsIndex(e)  == e.ev = "index"
IsFail(e)   == e.ev = "fail"

\* the invocations of the constructor's completion callback
CtorCbs == SelectSeq(log[0], IsCb)
\* the errors the 'error' listener was given for the constructor
CtorHeard == SelectSeq(log[0], IsHeard)
CtorThrows == SelectSeq(log[0], IsThrow)
\* how often 'connected' was emitted
Emits == Len(SelectSeq(log[0], IsEmit))

\* FAILED: connect or the index creation has failed
Failed == connectRes = "fail" \/ indexRes = "fail"

\* operations invoked and not handed to the database
Dispatched(i) == \E j \in DOMAIN dbCalls : dbCalls[j].op = i
Pending == {i \in DOMAIN ops : ~Dispatched(i)}

\* the events a step appended to operation o's log
Appended(o) == SubSeq(log'[o], Len(log[o]) + 1, Len(log'[o]))

\* ---------------------------------------------------------------- claims
\* C1: every get/set/destroy/clear invoked before READY is queued with its exact
\* arguments and issues no database call until the store is READY.
C1_QueuedUntilReady ==
  ~Ready =>
    /\ dbCalls = <<>>
    /\ \A i \in DOMAIN ops :
         Cardinality({j \in DOMAIN connListeners :
                        connListeners[j] = OpListener(i, ops[i])}) = 1

\* two operations were invoked while connect was still pending
C1_Witness == connectRes = "pending" /\ Len(ops) = 2

RECURSIVE ReplayOf(_)
\* the database calls of the pending operations up to i, in invocation order
ReplayOf(i) ==
  IF i = 0 THEN <<>>
  ELSE ReplayOf(i - 1) \o (IF i \in Pending THEN DispatchCalls(i, ops[i], "replay") ELSE <<>>)

\* C2: on reaching READY every buffered operation is dispatched exactly once,
\* in invocation order, with none lost, duplicated or reordered.
C2_ReplayInOrder ==
  [][ /\ (~Ready /\ Ready') => dbCalls' = dbCalls \o ReplayOf(Len(ops))
      /\ \A i \in DOMAIN ops' :
           Cardinality({j \in DOMAIN dbCalls' :
                          dbCalls'[j].op = i /\ dbCalls'[j].via # "expiry"}) <= 1 ]_vars

\* two operations of different kinds were buffered and have been replayed
C2_Witness ==
  /\ Ready
  /\ \E j, k \in DOMAIN dbCalls :
       /\ j < k /\ dbCalls[j].op < dbCalls[k].op
       /\ dbCalls[j].via = "replay" /\ dbCalls[k].via = "replay"
       /\ dbCalls[j].call # dbCalls[k].call

\* C3: once connect or index creation has failed, an operation that was buffered
\* is never dispatched and its callback is never invoked.
C3_FailedNeverReplays ==
  [][ Failed' => \A i \in Pending : i \in Pending' /\ log'[i] = <<>> ]_vars

\* an operation is still buffered after the index creation failed
C3_Witness ==
  /\ indexRes = "fail"
  /\ \E j \in DOMAIN connListeners : connListeners[j].type = "op"
  /\ Pending # {}

\* C4: when connect and index creation both succeed the completion callback is
\* invoked exactly once, without an error, and 'connected' is emitted exactly once.
C4_ReadySignalledOnce ==
  Ready =>
    /\ Emits = 1
    /\ Len(CtorCbs) = (IF hasCallback /\ ~tick THEN 1 ELSE 0)
    /\ \A k \in DOMAIN CtorCbs : CtorCbs[k].err = NoErr

C4_Witness == Ready /\ hasCallback /\ ~tick /\ Len(CtorCbs) = 1 /\ Emits = 1

\* C5: when index creation fails and a completion callback was supplied, the
\* callback is invoked exactly once, with 'Error creating index: ' + cause, and
\* never also without an error.
C5_IndexErrorOnce ==
  (indexRes = "fail" /\ hasCallback) =>
    /\ Len(CtorCbs) <= 1
    /\ ~tick => Len(CtorCbs) = 1
    /\ \A k \in DOMAIN CtorCbs :
         \E c \in Causes : CtorCbs[k].err.msg = <<"Error creating index: ", c>>

\* the index creation failed and the completion callback has been invoked
C5_Witness == indexRes = "fail" /\ hasCallback /\ ~tick /\ Len(CtorCbs) >= 1

\* C6: a failed connect is delivered once (the listener and the callback get it
\* at most once each), as 'Error connecting to db: ' + cause, and no index
\* creation is attempted.
C6_ConnectErrorOnce ==
  connectRes = "fail" =>
    /\ SelectSeq(log[0], IsIndex) = <<>>
    /\ Len(CtorHeard) <= 1
    /\ Len(CtorCbs) = (IF hasCallback THEN 1 ELSE 0)
    /\ Len(CtorHeard) + Len(CtorCbs) + Len(CtorThrows) >= 1
    /\ \E c \in Causes :
         /\ SelectSeq(log[0], IsFail) = Failure(0, c)
         /\ \A k \in DOMAIN log[0] :
              log[0][k].ev \in {"error", "cb", "throw"} =>
                log[0][k].err.msg = <<"Error connecting to db: ", c>>

C6_Witness ==
  /\ connectRes = "fail" /\ hasCallback
  /\ Len(CtorHeard) = 1 /\ Len(CtorCbs) = 1

\* a connect or index-creation error reached a listener, the callback or a throw
LifecycleErrorDelivered ==
  \E k \in DOMAIN log[0] :
    log[0][k].ev \in {"error", "cb", "throw"} /\ log[0][k].err # NoErr

\* C7: no store both emits 'connected' and delivers a connect or index-creation
\* error; 'connected' is emitted only after the index creation succeeded.
C7_ReadyXorFailed ==
  /\ ~(Emits >= 1 /\ LifecycleErrorDelivered)
  /\ Emits >= 1 => indexRes = "ok"

\* an index-creation error was delivered
C7_Witness == indexRes = "fail" /\ LifecycleErrorDelivered

\* C8: when connect fails and no callback was supplied, the constructor call
\* itself raises, with a message containing the cause.
C8_ConnectFailureThrowsSync ==
  (connectRes = "fail" /\ ~hasCallback) =>
    \E k \in DOMAIN CtorThrows :
      /\ CtorThrows[k].val = <<"sync">>
      /\ \E c \in Causes : \E n \in DOMAIN CtorThrows[k].err.msg :
           CtorThrows[k].err.msg[n] = c

\* connect failed without a callback and the error was thrown
C8_Witness == connectRes = "fail" /\ ~hasCallback /\ CtorThrows # <<>>

\* C9: when connect fails with a completion callback and an 'error' listener
\* present, each receives the error exactly once, and it is the same object.
C9_CallbackAndListener ==
  [][ /\ (connectRes # "fail" /\ connectRes' = "fail" /\ hasCallback'
            /\ Registered(errListeners) = 1) =>
          \E e \in {x.err : x \in {Appended(0)[k] : k \in DOMAIN Appended(0)}} \ {NoErr} :
             /\ SelectSeq(Appended(0), IsHeard) = <<Ev("error", 0, 1, e, <<>>)>>
             /\ SelectSeq(Appended(0), IsCb) = <<Ev("cb", 0, 0, e, <<>>)>>
      /\ connectRes = "fail" => log'[0] = log[0] ]_vars

C9_Witness ==
  /\ connectRes = "fail" /\ hasCallback
  /\ Len(CtorHeard) = 1 /\ Len(CtorCbs) = 1
  /\ CtorHeard[1].err = CtorCbs[1].err /\ CtorCbs[1].err # NoErr
  /\ errListeners = "gone"

\* the callback handleError is given for operation o (0: the constructor)
CallbackOf(o) == IF o = 0 THEN hasCallback' ELSE ops[o].hasCb

\* C10: for every failure of connect, index creation, get, set, destroy or
\* clear the error is emitted to the 'error' listener if one is registered,
\* passed to the operation's callback if one was supplied, and raised if there
\* is neither; with both, both receive it.
C10_ErrorDelivery ==
  [][ \A o \in DOMAIN log :
        LET new == Appended(o)
        IN  (new # <<>> /\ new[1].ev = "fail") =>
              \E e \in {new[k].err : k \in DOMAIN new} \ {NoErr} :
                /\ e.msg[Len(e.msg)] = new[1].val[1]
                /\ Registered(errListeners) = 1 =>
                     \E k \in DOMAIN new : new[k] = Ev("error", o, 1, e, <<>>)
                /\ CallbackOf(o) =>
                     \E k \in DOMAIN new : new[k] = Ev("cb", o, 0, e, <<>>)
                /\ (Registered(errListeners) = 0 /\ ~CallbackOf(o)) =>
                     \E k \in DOMAIN new : new[k].ev = "throw" /\ new[k].err = e ]_vars

\* a failed database call reached both the listener and the operation's callback
C10_Witness ==
  \E o \in DOMAIN log : o > 0 /\
    \E j, k \in DOMAIN log[o] :
      /\ log[o][j].ev = "error" /\ log[o][k].ev = "cb"
      /\ log[o][j].err = log[o][k].err /\ log[o][k].err # NoErr

\* ---------------------------------------------------------------- what a step on the collection did
\* the database answered request r in this step: with an error, or with a result
Answered(r) == r \in pending /\ r \notin pending'
Refused(r)  == Answered(r) /\ pending' = pending \ {r} /\ last'.err # <<>>
Served(r)   == Answered(r) /\ ~Refused(r)

\* the documents of id whose stored expiry lies before time t
Expired(c, id, t) == {d \in Matching(c, id) : d.expires.key # "" /\ d.expires.ms < t}

\* C11: a get on an id whose stored expiry is in the past issues exactly one
\* deletion of that document and, once the deletion is done, calls back with
\* no error and an empty result, the document being absent.
C11_StaleGetDeletes ==
  [][ \A r \in pending :
        /\ (r.call = "findOne" /\ Served(r) /\ Expired(coll, r.id, now) # {}) =>
             /\ pending' = (pending \ {r}) \cup
                             {DbRequest(r.op, "get", "deleteOne", r.id, NoSession, NoDoc)}
             /\ last' = last
        /\ (r.call = "deleteOne" /\ r.method = "get" /\ Served(r)) =>
             /\ last' = Result("get", r.id, NoSession, <<>>, NoSession)
             /\ Matching(coll', r.id) = {} ]_allVars

\* a get was answered with a session while the document's expiry is in the past
C11_Witness ==
  /\ last.method = "get" /\ last.err = <<>> /\ last.val # NoSession
  /\ Expired(coll, last.id, now) # {}

\* the payload as get must return it: what was set, the cookie replaced by its
\* toJSON() when it has one
Transformed(p) ==
  [data |-> p.data,
   cookie |-> IF p.cookie.kind = "toJSON" THEN [kind |-> "json", expires |-> p.cookie.expires]
                                          ELSE p.cookie]

\* request r is the only one pending and the last callback reported the
\* success of a set for r's id: r follows that set immediately
FollowsSet(r) ==
  /\ pending = {r}
  /\ last.method = "set" /\ last.id = r.id /\ last.err = <<>>

C13_AbsentGetIsEmpty ==
  [][ \A r \in pending :
        (r.call = "findOne" /\ Served(r) /\ Matching(coll, r.id) = {}) =>
          /\ last' = Result("get", r.id, NoSession, <<>>, NoSession)
          /\ pending' = pending \ {r}
          /\ coll' = coll ]_allVars

\* a get of an id that was never set came back empty
C13_Witness ==
  /\ last = Result("get", "a", NoSession, <<>>, NoSession)
  /\ lastSet["a"] = NoDoc /\ coll = {} /\ pending = {}

\* the document records no expiry, or one later than t
Unexpired(d, t) == d.expires.key = "" \/ t < d.expires.ms

\* C14: a get on an id whose document records no expiry, or an expiry in the
\* future, calls back with no error and exactly the stored session payload.
C14_FreshGetReturnsPayload ==
  [][ \A r \in pending :
        (/\ r.call = "findOne" /\ Served(r)
         /\ Matching(coll, r.id) # {}
         /\ \A d \in Matching(coll, r.id) : Unexpired(d, now)) =>
          /\ \E d \in Matching(coll, r.id) :
               last' = Result("get", r.id, NoSession, <<>>, d.session)
          /\ pending' = pending \ {r}
          /\ coll' = coll ]_allVars

\* a get returned the payload of a document whose expiry is still ahead
C14_Witness ==
  /\ last.method = "get" /\ last.err = <<>>
  /\ \E d \in Matching(coll, last.id) :
       d.session = last.val /\ d.expires.key = "expires" /\ now < d.expires.ms

\* the request the step issued
Issued == pending' \ pending

\* C15: set with an explicit cookie expiry T stores an expiry equal to T; set
\* without one stores an expiry within [now, now + expires] at the time of the
\* call.
C15_StoredExpiry ==
  [][ /\ \A r \in Issued :
           r.call = "updateOne" =>
             IF r.session.cookie.kind # "none" /\ r.session.cookie.expires.rep # "none"
             THEN r.doc.expires.ms = r.session.cookie.expires.ms
             ELSE now <= r.doc.expires.ms /\ r.doc.expires.ms <= now + options["expires"].n
      /\ \A r \in pending :
           (r.call = "updateOne" /\ Served(r)) =>
             \E d \in Matching(coll', r.id) : d.expires.ms = r.doc.expires.ms ]_allVars

\* documents stored with the cookie's expiry and with now + expires
C15_Witness ==
  /\ \E d \in coll : d.session.cookie.expires.rep = "iso"
                     /\ d.expires.ms = d.session.cookie.expires.ms
  /\ lastSet["a"].session.cookie.kind # "none"
  /\ now = 2

\* C16: whatever set, destroy, clear and get operations succeeded, the
\* collection holds at most one document per session id, and that document
\* carries the payload and the expiry of the most recent successful set of
\* that id.
C16_OneDocumentPerId ==
  \A id \in Ids :
    /\ Cardinality(Matching(coll, id)) <= 1
    /\ \A d \in Matching(coll, id) :
         IF lastSet[id] = NoDoc THEN d = ForeignDoc(id)
         ELSE d.session = lastSet[id].session /\ d.expires = lastSet[id].expires

\* a set found a document under its id and updated it: still one document,
\* with the payload of the set
C16_Witness ==
  /\ last.method = "set" /\ last.err = <<>>
  /\ \E d \in Matching(coll, "a") :
       d.foreign /\ d.session = lastSet["a"].session /\ d.session.cookie.kind # "none"
  /\ Cardinality(coll) = 1

\* request r is the only one pending and the last callback reported the
\* success of a clear: r follows that clear immediately
FollowsClear(r) ==
  /\ pending = {r}
  /\ last.method = "clear" /\ last.err = <<>>

\* C17: clear issues a delete-many with an empty filter that removes every
\* document of the collection; after a successful clear a get of any id set
\* before returns an empty result.
C17_ClearRemovesAll ==
  [][ /\ \A r \in Issued : r.method = "clear" => r.call = "deleteMany" /\ r.id = ""
      /\ \A r \in pending :
           /\ (r.call = "deleteMany" /\ Served(r)) =>
                coll' = {} /\ last' = Result("clear", "", NoSession, <<>>, NoSession)
           /\ (r.call = "findOne" /\ Served(r) /\ FollowsClear(r) /\ lastSet[r.id] # NoDoc) =>
                /\ last' = Result("get", r.id, NoSession, <<>>, NoSession)
                /\ pending' = {} ]_allVars

\* a set, then a successful clear that emptied the collection before the set
\* document could expire, then a get that is about to be answered
C17_Witness ==
  /\ last = Result("clear", "", NoSession, <<>>, NoSession)
  /\ lastSet["a"] # NoDoc /\ now < lastSet["a"].expires.ms
  /\ coll = {}
  /\ \E r \in pending : r.call = "findOne" /\ r.id = "a"

\* C18: after a successful destroy(id) no document with that id remains; a
\* destroy that matches no document completes with no error; a second destroy
\* leaves what the first one left.
C18_DestroyRemoves ==
  [][ \A r \in pending :
        (r.call = "deleteOne" /\ r.method = "destroy" /\ Served(r)) =>
          /\ Matching(coll', r.id) = {}
          /\ last' = Result("destroy", r.id, NoSession, <<>>, NoSession)
          /\ Matching(coll, r.id) = {} => coll' = coll
          /\ DeletedOne(coll', r.id) = {coll'} ]_allVars

\* a set and then a destroy, which removed the document before it could expire
C18_Witness ==
  /\ count = 2 /\ pending = {}
  /\ last = Result("destroy", "a", NoSession, <<>>, NoSession)
  /\ lastSet["a"] # NoDoc /\ now < lastSet["a"].expires.ms
  /\ coll = {}

\* the message announced for a failed database call r with the driver's message c
AnnouncedMessage(r, c) ==
  CASE r.call = "findOne"    -> <<"Error finding ", r.sid, ": ", c>>
    [] r.call = "updateOne"  -> <<"Error setting ", r.sid, " to ", r.payload, ": ", c>>
    [] r.call = "deleteOne"  -> <<"Error destroying ", r.sid, ": ", c>>
    [] r.call = "deleteMany" -> <<"Error clearing all sessions: ", c>>

\* C19: when the database call of get, set, destroy or clear fails, the
\* operation's callback is invoked exactly once, with an error and no result,
\* and the error's message is 'Error finding <id>: <cause>', 'Error setting
\* <id> to <payload>: <cause>', 'Error destroying <id>: <cause>' or 'Error
\* clearing all sessions: <cause>'.
C19_OperationErrorOnce ==
  [][ \A r \in inflight :
        LET new == Appended(r.op)
        IN  (r \notin inflight' /\ new # <<>> /\ new[1].ev = "fail" /\ r.hasCb) =>
              \E c \in Causes :
                /\ new[1].val = <<c>>
                /\ \E e \in {new[k].err : k \in DOMAIN new} :
                     /\ e.msg = AnnouncedMessage(r, c)
                     /\ SelectSeq(new, IsCb) = <<Ev("cb", r.op, 0, e, <<>>)>>
                /\ SelectSeq(log[r.op], IsCb) = <<>> ]_vars

\* a set whose updateOne failed called back once, with the announced message
C19_Witness ==
  \E o \in DOMAIN ops :
    /\ ops[o].kind = "set" /\ ops[o].hasCb
    /\ \E e \in {log[o][k].err : k \in DOMAIN log[o]} :
         /\ e.msg = <<"Error setting ", "1234", " to ", "{}", ": ", "Cant connect">>
         /\ SelectSeq(log[o], IsCb) = <<Ev("cb", o, 0, e, <<>>)>>

\* the value the application gave option k: undefined when it passed nothing
\* or a callback alone
Given(k) == IF supplied.first = "object" THEN supplied.opts[k] ELSE Undefined

\* the documented defaults
Documented ==
  [collection |-> Str("sessions"), expires |-> Num(14 * 24 * 60 * 60 * 1000),
   idField |-> Str("_id"), expiresKey |-> Str("expires"), expiresAfterSeconds |-> Num(0)]

\* C20: whatever subset of the options the constructor is given (none, or a
\* callback as the only argument, included), each option given keeps its value,
\* each option not given has its documented default, and no option is left
\* undefined.
C20_OptionsResolved ==
  phase # "new" =>
    \A k \in OptionKeys :
      /\ Given(k) # Undefined => options[k] = Given(k)
      /\ (Given(k) = Undefined /\ k \in DOMAIN Documented) => options[k] = Documented[k]
      /\ options[k] # Undefined

\* a store constructed with expires: 0 and a collection, the rest left out
C20_Witness ==
  /\ phase # "new"
  /\ Given("expires") = Num(0) /\ options["expires"] = Num(0)
  /\ Given("collection") = Str("notSessions") /\ options["collection"] = Str("notSessions")
  /\ Given("idField") = Undefined /\ options["idField"] = Str("_id")
  /\ Given("expiresKey") = Undefined /\ options["expiresKey"] = Str("expires")

\* the identifier field and the expiry field the application configured
ConfiguredIdField    == IF Given("idField") = Undefined THEN "_id" ELSE Given("idField").s
ConfiguredExpiresKey == IF Given("expiresKey") = Undefined THEN "expires"
                                                           ELSE Given("expiresKey").s

\* C21: every database call of get, set and destroy selects by the configured
\* idField, and every document set writes has the shape {[idField]: id,
\* session: payload, [expiresKey]: expiry}: none lacks its expiry.
C21_DocumentShape ==
  /\ \A r \in pending :
       /\ r.call \in {"findOne", "updateOne", "deleteOne"} =>
            r.query = [field |-> ConfiguredIdField, value |-> r.id]
       /\ r.call = "updateOne" =>
            /\ r.doc.idField = ConfiguredIdField /\ r.doc.id = r.id
            /\ r.doc.expires.key = ConfiguredExpiresKey
            /\ r.doc.session # NoSession
  /\ \A d \in coll :
       lastSet[d.id] # NoDoc =>
         /\ d.idField = ConfiguredIdField
         /\ d.expires.key = ConfiguredExpiresKey
         /\ d.session = lastSet[d.id].session

\* a store configured with idField 'sessionId' wrote a document, and a get of
\* that id is about to be answered
C21_Witness ==
  /\ Given("idField") = Str("sessionId")
  /\ \E d \in coll : d.idField = "sessionId" /\ d.expires.key = "expires"
                     /\ lastSet[d.id] # NoDoc
  /\ \E r \in pending : r.call = "findOne" /\ r.query.field = "sessionId"

\* the index creations attempted so far
IndexAttempts == SelectSeq(log[0], IsIndex)

\* the grace period the application configured
ConfiguredSeconds ==
  IF Given("expiresAfterSeconds") = Undefined THEN 0 ELSE Given("expiresAfterSeconds").n

\* C22: a store attempts index creation at most once, only after connect has
\* succeeded (never when connect failed, never before connect returns), on the
\* configured expiry field with expireAfterSeconds equal to the configured
\* grace period; a failed attempt is not retried.
C22_IndexOnceAfterConnect ==
  /\ Len(IndexAttempts) <= 1
  /\ IndexAttempts # <<>> <=> connectRes = "ok"
  /\ IndexAttempts # <<>> =>
       IndexAttempts[1].val = <<ConfiguredExpiresKey, ConfiguredSeconds>>

\* the one attempt, on the configured field and period, failed and the chain
\* has ended
C22_Witness ==
  /\ indexRes = "fail" /\ phase = "settled" /\ ~tick
  /\ Len(IndexAttempts) = 1
  /\ IndexAttempts[1].val = <<"expiresAt", 10>>

\* the database call an operation starts with
FirstCall(method) ==
  CASE method = "get"     -> "findOne"
    [] method = "set"     -> "updateOne"
    [] method = "destroy" -> "deleteOne"
    [] method = "clear"   -> "deleteMany"

\* C23: each set, destroy and clear issues exactly one database call; each get
\* issues exactly one lookup and, only when the document found has expired,
\* exactly one delete; a database call that failed is followed by no further
\* call of its operation.
C23_OneCallPerOperation ==
  [][ /\ count' # count =>
           \E q \in Issued :
             Issued = {q} /\ q.op = count' /\ q.method \in Kinds /\ q.call = FirstCall(q.method)
      /\ count' = count =>
           \A q \in Issued :
             /\ Issued = {q} /\ q.call = "deleteOne" /\ q.method = "get"
             /\ \E r \in pending :
                  /\ Answered(r) /\ r.call = "findOne" /\ r.op = q.op /\ r.id = q.id
                  /\ \E d \in Matching(coll, r.id) : ~Unexpired(d, now)
      /\ \A r \in pending :
           /\ Refused(r) => Issued = {}
           /\ (Answered(r) /\ r.call # "findOne") => Issued = {} ]_allVars

\* a get found an expired document and its delete is under way, while the
\* call of another operation has failed
C23_Witness ==
  /\ \E q \in pending : q.call = "deleteOne" /\ q.method = "get"
  /\ last.err # <<>>
  /\ Cardinality(pending) = 1

\* another set of the same id is under way while r is
Concurrent(r) ==
  \E q \in pending \ {r} : q.call = "updateOne" /\ q.method = "set" /\ q.id = r.id

\* C24: when two store instances call set for the same id concurrently and
\* both calls succeed, the collection holds exactly one document for the id,
\* with the payload and the expiry of one and the same call, the one applied
\* last.  (Instances of one configuration issue the same updateOne calls as
\* one instance does: the collection sees two updates under way.)
C24_ConcurrentSetsDoNotMix ==
  [][ \A r \in pending :
        (r.call = "updateOne" /\ Served(r) /\ (Concurrent(r) \/ lastSet[r.id] # NoDoc)) =>
          \E d \in coll' :
            /\ Matching(coll', r.id) = {d}
            /\ d.session = r.doc.session
            /\ d.expires = r.doc.expires
            /\ lastSet'[r.id] = r.doc ]_allVars

\* two sets of one id with different payloads and expiries were under way
\* together; the second was applied first and the first is about to be
C24_Witness ==
  \E r \in pending :
    /\ r.op = 1 /\ r.call = "updateOne" /\ count = 2
    /\ last.method = "set" /\ last.err = <<>> /\ last.session # r.session
    /\ \E d \in Matching(coll, r.id) :
         d.session = lastSet[r.id].session /\ d.session # r.doc.session
         /\ d.expires # r.doc.expires

\* operation o was invoked with a callback / its callback has been invoked
InvokedWithCallback(o) == o \in DOMAIN ops /\ ops[o].hasCb
CalledBack(o)          == SelectSeq(log[o], IsCb) # <<>>

\* C25: provided connect and index creation succeed and every database call
\* returns, every get, set, destroy or clear invoked with a callback, before
\* or after READY, eventually has its callback invoked.
C25_CallbackEventually ==
  (<>Ready) => \A o \in 1..MaxOps : InvokedWithCallback(o) ~> CalledBack(o)

\* an operation invoked before READY was replayed and has called back
C25_Witness ==
  /\ Ready
  /\ \E o \in DOMAIN ops :
       /\ InvokedWithCallback(o) /\ CalledBack(o)
       /\ \E j \in DOMAIN dbCalls : dbCalls[j].op = o /\ dbCalls[j].via = "replay"

\* C26: the store's connection handle is created once per store, and once the
\* store is READY no operation (get, set, destroy, clear, all, error delivery)
\* replaces or clears it.
C26_HandleCreatedOnce ==
  [][ /\ db => db'
      /\ db' # db => ~Ready
      /\ Ready' => db' ]_allVars

\* a READY store still has its handle after an all() and another operation
\* whose database call failed
C26_Witness ==
  /\ Ready /\ db /\ inflight = {}
  /\ \E o, q \in DOMAIN ops :
       /\ ops[o].kind = "all" /\ CalledBack(o)
       /\ ops[q].kind # "all" /\ SelectSeq(log[q], IsFail) # <<>>

\* C27: set stores a copy of the payload in which the cookie is replaced by
\* the result of its toJSON() when it has one and kept as it is otherwise; the
\* other fields are copied unchanged and the caller's payload is not modified.
C27_StoredCopy ==
  [][ /\ \A q \in Issued :
           q.call = "updateOne" =>
             /\ q.session \in Sessions
             /\ q.doc.session.data = q.session.data
             /\ q.doc.session.cookie =
                  IF q.session.cookie.kind = "toJSON"
                  THEN [kind |-> "json", expires |-> q.session.cookie.expires]
                  ELSE q.session.cookie
      /\ \A r \in pending :
           (r.call = "updateOne" /\ Served(r)) =>
             /\ \E d \in Matching(coll', r.id) : d.session = r.doc.session
             /\ last'.session = r.session ]_allVars

\* a payload whose cookie has a toJSON was stored with the cookie converted,
\* and the payload the caller holds still has the cookie it had
C27_Witness ==
  /\ last.method = "set" /\ last.err = <<>> /\ last.session.cookie.kind = "toJSON"
  /\ \E d \in Matching(coll, last.id) :
       d.session.cookie = [kind |-> "json", expires |-> last.session.cookie.expires]
       /\ d.session.data = last.session.data

\* C28: when get finds an expired document and the delete it starts fails,
\* get's callback is invoked exactly once, with 'Error destroying <id>:
\* <cause>', and is never given the expired payload.
C28_FailedExpiryDelete ==
  [][ \A r \in inflight :
        LET new == Appended(r.op)
        IN  (/\ r.call = "deleteOne" /\ ops[r.op].kind = "get"
             /\ r \notin inflight' /\ new # <<>> /\ new[1].ev = "fail") =>
              /\ \E c \in Causes :
                   \E e \in {new[k].err : k \in DOMAIN new} :
                     /\ e.msg = <<"Error destroying ", r.sid, ": ", c>>
                     /\ SelectSeq(log'[r.op], IsCb) = <<Ev("cb", r.op, 0, e, <<>>)>>
              /\ \A q \in inflight' : q.op # r.op ]_vars

\* a get whose document had expired called back once, with the error of the
\* delete that failed
C28_Witness ==
  \E o \in DOMAIN ops :
    /\ ops[o].kind = "get"
    /\ \E j \in DOMAIN dbCalls : dbCalls[j].op = o /\ dbCalls[j].via = "expiry"
    /\ Len(SelectSeq(log[o], IsCb)) = 1
    /\ SelectSeq(log[o], IsCb)[1].err.msg = <<"Error destroying ", "1234", ": ", "Cant connect">>
    /\ SelectSeq(log[o], IsCb)[1].val = <<>>

\* C29: for every idField and expiresKey and every sequence of operations, get
\* never delivers the payload of a document whose stored expiry is not
\* strictly in the future: a document set stored with an expiry at or before
\* the current time is treated as expired.
C29_NeverDeliversExpired ==
  [][ \A r \in pending :
        (r.call = "findOne" /\ Served(r)) =>
          \A d \in Matching(coll, r.id) :
            (d.expires.key # "" /\ d.expires.ms <= now) =>
              /\ \E q \in Issued : q.call = "deleteOne" /\ q.id = r.id
              /\ ~(last'.method = "get" /\ last'.val = d.session /\ pending' = pending \ {r}) ]_allVars

\* a get delivered the payload of a document whose expiry, stored under the
\* configured key, is the current time
C29_Witness ==
  /\ last.method = "get" /\ last.err = <<>> /\ last.val # NoSession /\ pending = {}
  /\ \E d \in Matching(coll, last.id) :
       /\ d.session = last.val
       /\ d.expires.key = ConfiguredExpiresKey /\ d.expires.ms = now

\* C30: under any interleaving of a get(id) and a concurrent set(id, payload),
\* the delete that get's lazy expiry triggers removes no document whose expiry
\* is in the future: a session set writes between get's lookup and get's
\* delete is still there afterwards.
C30_ExpiryDeleteSparesFresh ==
  [][ \A r \in pending :
        (r.call = "deleteOne" /\ r.method = "get" /\ Served(r)) =>
          \A d \in Matching(coll, r.id) :
            (d.expires.key # "" /\ now < d.expires.ms) => d \in coll' ]_allVars

\* get found an expired document and its delete is under way; meanwhile a set
\* has replaced the document by one whose expiry is in the future
C30_Witness ==
  /\ \E q \in pending : q.call = "deleteOne" /\ q.method = "get" /\ q.id = "a"
  /\ last = Result("set", "a", last.session, <<>>, NoSession)
  /\ \E d \in Matching(coll, "a") :
       d = lastSet["a"] /\ d.expires.key = "expires" /\ now < d.expires.ms

\* the invocations of operation o's callback / every database call made for
\* operation o has returned
CallbacksOf(o) == SelectSeq(log[o], IsCb)
Returned(o)    == Dispatched(o) /\ \A r \in inflight : r.op # o

\* C31: for every get, set, destroy and clear call that supplies a callback
\* and whose database call returns, the callback is invoked exactly once on
\* every path (success, not found, expired and deleted, database failure):
\* never twice, and never with both an error and a payload.
C31_CallbackExactlyOnce ==
  \A o \in DOMAIN ops :
    ops[o].hasCb =>
      /\ Len(CallbacksOf(o)) <= 1
      /\ Returned(o) <=> Len(CallbacksOf(o)) = 1
      /\ \A k \in DOMAIN CallbacksOf(o) :
           ~(CallbacksOf(o)[k].err # NoErr /\ CallbacksOf(o)[k].val # <<>>)

\* a get whose document had expired was called back once after the delete,
\* and an operation whose database call failed was called back once
C31_Witness ==
  /\ inflight = {}
  /\ \E o, q \in DOMAIN ops :
       /\ ops[o].kind = "get"
       /\ \E j \in DOMAIN dbCalls : dbCalls[j].op = o /\ dbCalls[j].via = "expiry"
       /\ CallbacksOf(o) = <<Ev("cb", o, 0, NoErr, <<>>)>>
       /\ ops[q].hasCb /\ SelectSeq(log[q], IsFail) # <<>>
       /\ Len(CallbacksOf(q)) = 1 /\ CallbacksOf(q)[1].err # NoErr

\* the errors that were handed to an 'error' listener or to a callback while
\* o (0: the constructor) was handled, and the errors that were thrown
DeliveredIn(o) ==
  {log[o][k].err : k \in {i \in DOMAIN log[o] :
                            log[o][i].ev \in {"error", "cb"} /\ log[o][i].err # NoErr}}
RaisedIn(o) == {log[o][k].err : k \in {i \in DOMAIN log[o] : log[o][i].ev = "throw"}}

\* C32: an error that Error Delivery has handed to an 'error' listener or to
\* a callback is never raised as an exception as well for the same failure,
\* whether the listener was registered with on or with once, and also for a
\* constructor failure with a listener but no callback.
C32_DeliveredNotRaised ==
  \A o \in DOMAIN log : DeliveredIn(o) \cap RaisedIn(o) = {}

\* the constructor had a listener and no callback, connect failed, and the
\* error the listener heard was thrown as well
C32_Witness ==
  /\ ~hasCallback
  /\ connectRes = "fail"
  /\ \E e \in DeliveredIn(0) \cap RaisedIn(0) :
       /\ CtorHeard = <<Ev("error", 0, 1, e, <<>>)>>
       /\ CtorCbs = <<>>

\* the database calls that dispatch an operation (get's delete of an expired
\* session is a second call of an operation already dispatched)
Dispatches == SelectSeq(dbCalls, LAMBDA c : c.via # "expiry")

\* C33: across the whole lifetime of a store the database dispatch order
\* equals the invocation order: no operation is dispatched before an operation
\* that was invoked earlier on the same store, also when operations are invoked
\* from inside a 'connected' listener while buffered operations are replayed.
C33_DispatchInInvocationOrder ==
  \A j, k \in DOMAIN Dispatches : j < k => Dispatches[j].op < Dispatches[k].op

\* an operation invoked from a 'connected' listener was dispatched before the
\* replay of an operation that had been buffered earlier
C33_Witness ==
  \E j, k \in DOMAIN Dispatches :
    /\ j < k
    /\ Dispatches[j].via = "direct" /\ Dispatches[k].via = "replay"
    /\ Dispatches[k].op < Dispatches[j].op

\* the places in a sequence of events where the callback is invoked
CallbackAt(es) == {k \in DOMAIN es : es[k].ev = "cb"}

\* C34: on reaching READY all 'connected' listeners are notified and all
\* buffered operations are dispatched before the constructor's completion
\* callback is invoked.
C34_CallbackAfterConnected ==
  [][ (~Ready /\ Ready') =>
        LET new == Appended(0)
        IN  /\ CtorCbs = <<>>
            /\ \E k \in DOMAIN new :
                 /\ new[k] = Ev("emit", 0, 0, NoErr, <<"connected">>)
                 /\ \A c \in CallbackAt(new) : k < c
            /\ \A i \in DOMAIN connListeners :
                 connListeners[i].type = "user" =>
                   \E k \in DOMAIN new :
                     /\ new[k] = Ev("connected", 0, connListeners[i].id, NoErr, <<>>)
                     /\ \A c \in CallbackAt(new) : k < c
            /\ Pending' = {}
            /\ hasCallback => (tick' \/ CallbackAt(new) # {}) ]_vars

\* the store is READY: a listener was notified, two buffered operations were
\* dispatched, and after that the completion callback was invoked
C34_Witness ==
  /\ Ready /\ hasCallback /\ ~tick
  /\ \E j, k \in DOMAIN log[0] : j < k /\ log[0][j].ev = "connected" /\ log[0][k].ev = "cb"
  /\ Cardinality({j \in DOMAIN dbCalls : dbCalls[j].via = "replay"}) = 2

\* C35: for a failure that has both an 'error' listener and a callback, the
\* listener is notified before the callback is invoked, and the callback is
\* invoked even though the listener was notified first.
C35_ListenerBeforeCallback ==
  [][ \A o \in DOMAIN log :
        LET new == Appended(o)
        IN  (new # <<>> /\ new[1].ev = "fail" /\ Registered(errListeners) = 1 /\ CallbackOf(o)) =>
              \E j \in DOMAIN new :
                /\ new[j].ev = "error" /\ new[j].err # NoErr
                /\ \A k \in CallbackAt(new) : j < k
                /\ \E k \in CallbackAt(new) : new[k].err = new[j].err ]_vars

\* the index creation failed in the callback generation: the listener heard
\* the error and right after it the completion callback was given the error
C35_Witness ==
  /\ variant = "callback" /\ indexRes = "fail"
  /\ \E j \in DOMAIN log[0] :
       /\ j + 1 \in DOMAIN log[0]
       /\ log[0][j].ev = "error" /\ log[0][j + 1].ev = "cb"
       /\ log[0][j].err = log[0][j + 1].err /\ log[0][j].err.msg[1] = "Error creating index: "

\* the documents of a collection whose identifier is not id
Others(c, id) == {d \in c : d.id # id}

\* C36: set(id, ...), destroy(id) and the lazy-expiry delete that get(id)
\* triggers change no document whose identifier differs from id.
C36_OtherDocumentsUntouched ==
  [][ \A r \in pending :
        (Served(r) /\ r.call \in {"updateOne", "deleteOne"}) =>
          Others(coll', r.id) = Others(coll, r.id) ]_allVars

\* a set and then a destroy of id "a" have been applied and the session of
\* id "b" is in the collection as it was
C36_Witness ==
  /\ last = Result("destroy", "a", NoSession, <<>>, NoSession)
  /\ lastSet["a"] # NoDoc
  /\ \E d \in coll : d.id = "b" /\ d.session = [data |-> "d", cookie |-> NoCookie]
  /\ \A d \in coll : d.id # "a"

\* C37: a get on an id whose document is absent or not expired leaves the
\* collection unchanged, and any operation whose database call fails leaves
\* the collection unchanged: no document changes and no further call is made.
C37_ReadsAndFailuresChangeNothing ==
  [][ \A r \in pending :
        /\ (r.call = "findOne" /\ Served(r)
              /\ \A d \in Matching(coll, r.id) : Unexpired(d, now)) =>
             coll' = coll /\ Issued = {}
        /\ Refused(r) => coll' = coll /\ Issued = {} ]_allVars

\* a clear whose deleteMany failed left the document a set had stored
C37_Witness ==
  /\ last.method = "clear" /\ last.err # <<>>
  /\ pending = {}
  /\ lastSet["a"] # NoDoc /\ lastSet["a"] \in coll

====
